---- MODULE Spec2Model ----
(***************************************************************************)
(* Model of src/quic/node_quic_crypto.cc: retry tokens, stateless reset    *)
(* tokens and IPv6 flow labels derived from a per-socket token secret.     *)
(*                                                                         *)
(* Byte strings are sequences of 0..255.  A uint64_t is its object         *)
(* representation: 8 bytes, least significant first (what memcpy of &now   *)
(* puts into the token on the little-endian targets the code runs on), and *)
(* all 64-bit arithmetic is done on that representation, modulo 2^64.      *)
(* A uint32_t is 4 bytes, least significant first.                         *)
(*                                                                         *)
(* HKDF-Extract and HKDF-Expand are computed (HMAC-SHA256, the hash of      *)
(* ngtcp2_crypto_ctx_initial).  The packet protection key derivation and   *)
(* the AEAD are symbolic: their output is a term that names the exact      *)
(* bytes it was given, so two outputs are equal iff the inputs were equal. *)
(***************************************************************************)
EXTENDS Integers, Sequences, FiniteSets, TLC

(* ------------------------------------------------------------------ *)
(* Bounds of the model                                                *)
(* ------------------------------------------------------------------ *)
MaxTicks == 2

(* ------------------------------------------------------------------ *)
(* Program and protocol constants                                     *)
(* ------------------------------------------------------------------ *)
kCryptoTokenKeylen == 32
kCryptoTokenIvlen == 32
kCryptoTokenSecretlen == 32
\* node_quic_util.h is not part of the sources at hand; the data model
\* gives the token secret 32 bytes and the nonce "e.g. 32 bytes".
kTokenSecretLen == 32
kTokenRandLen == 32
\* Width of an IPv6 flow label (kLabelMask has that many low bits set).
kLabelBits == 20
NGTCP2_STATELESS_RESET_TOKENLEN == 16
NGTCP2_MIN_CIDLEN == 1
NGTCP2_MAX_CIDLEN == 20
NGTCP2_SECONDS == 1000000000
\* ngtcp2_crypto_aead_taglen of the initial AEAD (AES-128-GCM)
AeadTagLen == 16
\* sizeof(uint64_t), sizeof(uint32_t)
SizeofU64 == 8
SizeofU32 == 4
\* std::array<uint8_t, 4096> plaintext / uint8_t plaintext[4096]
PlaintextCap == 4096
\* sizeof(sockaddr_in), sizeof(sockaddr_in6)
SizeofSockaddrIn == 16
SizeofSockaddrIn6 == 28
kInfoLen == (SizeofSockaddrIn6 * 2) + NGTCP2_MAX_CIDLEN

(* ------------------------------------------------------------------ *)
(* State                                                              *)
(* ------------------------------------------------------------------ *)
VARIABLES
  hrtime,        \* hrtime[s]: what uv_hrtime() returns on endpoint s
  ticks,         \* number of clock steps taken
  secret_of,     \* secret_of[s]: the token secret of endpoint s
  client_token,  \* the retry token the client holds (<< >>: none yet)
  issue,         \* how that token was made (history)
  accepted,      \* that token has been accepted by an endpoint (history)
  ret,           \* the call made by the last step and what it returned
  memo           \* the first reset-token / flow-label call (history)

vars == <<hrtime, ticks, secret_of, client_token, issue, accepted, ret, memo>>

(* ------------------------------------------------------------------ *)
(* Bytes and fixed-width unsigned integers                            *)
(* ------------------------------------------------------------------ *)
Byte == 0..255

Pow256(k) == IF k = 0 THEN 1 ELSE IF k = 1 THEN 256 ELSE IF k = 2 THEN 65536 ELSE 16777216

\* The w-byte little-endian object representation of a natural n < 2^31.
ToBytes(n, w) == [i \in 1..w |-> IF i > 4 THEN 0 ELSE (n \div Pow256(i - 1)) % 256]

ToU64(n) == ToBytes(n, SizeofU64)

RECURSIVE AddCarry(_, _, _)
AddCarry(a, b, i) ==
  IF i = 0 THEN 0 ELSE (a[i] + b[i] + AddCarry(a, b, i - 1)) \div 256

\* a + b on uint64_t (wraps modulo 2^64)
U64Add(a, b) == [i \in 1..SizeofU64 |-> (a[i] + b[i] + AddCarry(a, b, i - 1)) % 256]

\* TRUE iff the mathematical sum a + b does not fit in a uint64_t
U64AddOverflows(a, b) == AddCarry(a, b, SizeofU64) = 1

RECURSIVE ColSum(_, _, _, _)
ColSum(a, b, k, i) ==
  IF i = 0 THEN 0 ELSE a[i] * b[k + 1 - i] + ColSum(a, b, k, i - 1)

RECURSIVE MulCarry(_, _, _)
MulCarry(a, b, k) ==
  IF k = 0 THEN 0 ELSE (ColSum(a, b, k, k) + MulCarry(a, b, k - 1)) \div 256

\* a * b on uint64_t (wraps modulo 2^64)
U64Mul(a, b) ==
  [k \in 1..SizeofU64 |-> (ColSum(a, b, k, k) + MulCarry(a, b, k - 1)) % 256]

RECURSIVE LessFrom(_, _, _)
LessFrom(a, b, i) ==
  IF i = 0 THEN FALSE
  ELSE IF a[i] # b[i] THEN a[i] < b[i]
  ELSE LessFrom(a, b, i - 1)

\* a < b on unsigned integers of equal width
ULess(a, b) == LessFrom(a, b, Len(a))

U64Max == [i \in 1..SizeofU64 |-> 255]

\* a - b on uint64_t (wraps modulo 2^64): a + ~b + 1
U64Sub(a, b) ==
  U64Add(U64Add(a, [i \in 1..SizeofU64 |-> 255 - b[i]]), ToU64(1))

RECURSIVE BitAnd(_, _, _)
BitAnd(x, y, bits) ==
  IF bits = 0 THEN 0
  ELSE (x % 2) * (y % 2) + 2 * BitAnd(x \div 2, y \div 2, bits - 1)

(* ------------------------------------------------------------------ *)
(* Inputs: addresses, connection IDs, secrets, entropy                *)
(* ------------------------------------------------------------------ *)
\* SocketAddress::raw()/length(): a sockaddr_in (16 bytes) or a
\* sockaddr_in6 (28 bytes).  AddrV4 is 127.0.0.1:4433, AddrV4b the same
\* host on port 4434, AddrV6 is [::1]:4433.
AddrV4 == [i \in 1..SizeofSockaddrIn |->
             CASE i = 1 -> 2 [] i = 3 -> 17 [] i = 4 -> 81
               [] i = 5 -> 127 [] i = 8 -> 1 [] OTHER -> 0]

AddrV4b == [AddrV4 EXCEPT ![4] = 82]

AddrV6 == [i \in 1..SizeofSockaddrIn6 |->
             CASE i = 1 -> 10 [] i = 3 -> 17 [] i = 4 -> 81
               [] i = 24 -> 1 [] OTHER -> 0]

Addresses == {AddrV4, AddrV4b, AddrV6}

\* The addresses retry tokens are issued to.
ClientAddresses == {AddrV4, AddrV6}

\* QuicCID values: zero length, 8 bytes (two of them), 20 bytes.
CidEmpty == << >>

Cid8 == [i \in 1..8 |-> i]

Cid8b == [i \in 1..8 |-> IF i = 8 THEN 9 ELSE i]

Cid20 == [i \in 1..NGTCP2_MAX_CIDLEN |-> 100 + i]

\* The original connection IDs retry tokens are issued for.
Cids == {CidEmpty, Cid8, Cid20}

\* Token secrets: kTokenSecretLen bytes.  SecretZero is all zero; the
\* others differ from it in exactly one byte.
SecretZero == [i \in 1..kTokenSecretLen |-> 0]

SecretWith(k) == [SecretZero EXCEPT ![k] = 1]

\* The secrets an endpoint may hold.
Secrets == {SecretZero, SecretWith(kTokenSecretLen)}

\* What EntropySource may write into rand_data.
Nonces == {[i \in 1..kTokenRandLen |-> 160], [i \in 1..kTokenRandLen |-> 161]}

\* The two endpoints of a cluster that may share a token secret.
Servers == {1, 2}

\* verification_expiration, in seconds (10 is the default).
DefaultWindow == 10

Windows == {DefaultWindow}

\* Inputs of the reset-token and flow-label calls.  The two secrets
\* differ in byte 17 only; Cid8z is Cid8 followed by two zero bytes.
GenSecrets == {SecretZero, SecretWith(NGTCP2_STATELESS_RESET_TOKENLEN + 1)}

Cid8z == Cid8 \o <<0, 0>>

GenCids == {Cid8, Cid8b, Cid8z}

GenRemotes == {AddrV4b, AddrV6}

(* ------------------------------------------------------------------ *)
(* SHA-256 and HMAC-SHA256: the hash of ngtcp2_crypto_ctx_initial.    *)
(* A 32-bit word is <<hi, lo>>, two 16-bit halves.                    *)
(* ------------------------------------------------------------------ *)
ZeroBytes(n) == [i \in 1..n |-> 0]

NibbleAnd ==
  [a \in 1..16 |-> [b \in 1..16 |-> BitAnd(a - 1, b - 1, 4)] \o << >>] \o << >>

\* a AND b for numbers of n hexadecimal digits
RECURSIVE AndN(_, _, _)
AndN(a, b, n) ==
  IF n = 0 THEN 0
  ELSE NibbleAnd[(a % 16) + 1][(b % 16) + 1] + 16 * AndN(a \div 16, b \div 16, n - 1)

\* a XOR b for numbers of n hexadecimal digits
XorN(a, b, n) == a + b - 2 * AndN(a, b, n)

WXor(u, v) == <<XorN(u[1], v[1], 4), XorN(u[2], v[2], 4)>>

\* u + v modulo 2^32
WAdd(u, v) ==
  <<(u[1] + v[1] + (u[2] + v[2]) \div 65536) % 65536, (u[2] + v[2]) % 65536>>

\* rotate right by n, 0 < n < 16
Rot(u, n) == LET p == 2 ^ n
                 q == 2 ^ (16 - n)
             IN <<u[1] \div p + (u[2] % p) * q, u[2] \div p + (u[1] % p) * q>>

RotR(u, n) == IF n < 16 THEN Rot(u, n)
              ELSE IF n = 16 THEN <<u[2], u[1]>>
              ELSE Rot(<<u[2], u[1]>>, n - 16)

\* shift right by n, 0 < n < 16
ShR(u, n) == LET p == 2 ^ n
                 q == 2 ^ (16 - n)
             IN <<u[1] \div p, u[2] \div p + (u[1] % p) * q>>

Xor3(a, b, c) == WXor(WXor(a, b), c)

Sha256K ==
  <<<<17034, 12184>>, <<28983, 17553>>, <<46528, 64463>>, <<59829, 56229>>,
    <<14678, 49755>>, <<23025, 4593>>, <<37439, 33444>>, <<43804, 24277>>,
    <<55303, 43672>>, <<4739, 23297>>, <<9265, 34238>>, <<21772, 32195>>,
    <<29374, 23924>>, <<32990, 45566>>, <<39900, 1703>>, <<49563, 61812>>,
    <<58523, 27073>>, <<61374, 18310>>, <<4033, 40390>>, <<9228, 41420>>,
    <<11753, 11375>>, <<19060, 33962>>, <<23728, 43484>>, <<30457, 35034>>,
    <<38974, 20818>>, <<43057, 50797>>, <<45059, 10184>>, <<48985, 32711>>,
    <<50912, 3059>>, <<54695, 37191>>, <<1738, 25425>>, <<5161, 10599>>,
    <<10167, 2693>>, <<11803, 8504>>, <<19756, 28156>>, <<21304, 3347>>,
    <<25866, 29524>>, <<30314, 2747>>, <<33218, 51502>>, <<37490, 11397>>,
    <<41663, 59553>>, <<43034, 26187>>, <<49739, 35696>>, <<51052, 20899>>,
    <<53650, 59417>>, <<54937, 1572>>, <<62478, 13701>>, <<4202, 41072>>,
    <<6564, 49430>>, <<7735, 27656>>, <<10056, 30540>>, <<13488, 48309>>,
    <<14620, 3251>>, <<20184, 43594>>, <<23452, 51791>>, <<26670, 28659>>,
    <<29839, 33518>>, <<30885, 25455>>, <<33992, 30740>>, <<36039, 520>>,
    <<37054, 65530>>, <<42064, 27883>>, <<48889, 41975>>, <<50801, 30962>>>>

Sha256H0 ==
  <<<<27145, 58983>>, <<47975, 44677>>, <<15470, 62322>>, <<42319, 62778>>,
    <<20750, 21119>>, <<39685, 26764>>, <<8067, 55723>>, <<23520, 52505>>>>

BigSigma0(u) == Xor3(RotR(u, 2), RotR(u, 13), RotR(u, 22))

BigSigma1(u) == Xor3(RotR(u, 6), RotR(u, 11), RotR(u, 25))

SmallSigma0(u) == Xor3(RotR(u, 7), RotR(u, 18), ShR(u, 3))

SmallSigma1(u) == Xor3(RotR(u, 17), RotR(u, 19), ShR(u, 10))

\* (e AND f) XOR (NOT e AND g) on a 16-bit half: the two terms share no bit
ChHalf(e, f, g) == AndN(e, f, 4) + AndN(65535 - e, g, 4)

Ch(e, f, g) == <<ChHalf(e[1], f[1], g[1]), ChHalf(e[2], f[2], g[2])>>

\* (a AND b) XOR (a AND c) XOR (b AND c) = (a AND b) + (c AND (a XOR b))
MajHalf(a, b, c) == AndN(a, b, 4) + AndN(c, XorN(a, b, 4), 4)

Maj(a, b, c) == <<MajHalf(a[1], b[1], c[1]), MajHalf(a[2], b[2], c[2])>>

\* Word number t of the message schedule w.
ScheduleWord(w, t) ==
  WAdd(WAdd(SmallSigma1(w[t - 2]), w[t - 7]), WAdd(SmallSigma0(w[t - 15]), w[t - 16]))

\* The message schedule, extended up to word number last.  (The tests
\* on the value just computed make the evaluation proceed word by word.)
RECURSIVE ScheduleTo(_, _)
ScheduleNext(w, n, last) ==
  IF n[1] >= 0 THEN ScheduleTo(Append(w, n), last) ELSE w

ScheduleTo(w, last) ==
  IF Len(w) >= last THEN w ELSE ScheduleNext(w, ScheduleWord(w, Len(w) + 1), last)

RECURSIVE Schedule(_)
ScheduleMore(w, n) == IF Len(n) > Len(w) THEN Schedule(n) ELSE n

Schedule(w) ==
  IF Len(w) >= 64 THEN w ELSE ScheduleMore(w, ScheduleTo(w, Len(w) + 8))

\* One round on working variables h8 = <<a, ..., h>> with round constant
\* c and schedule word wt.
T1(h8, c, wt) ==
  WAdd(WAdd(WAdd(h8[8], BigSigma1(h8[5])), WAdd(Ch(h8[5], h8[6], h8[7]), c)), wt)

T2(h8) == WAdd(BigSigma0(h8[1]), Maj(h8[1], h8[2], h8[3]))

Round(h8, t1, t2) ==
  <<WAdd(t1, t2), h8[1], h8[2], h8[3], WAdd(h8[4], t1), h8[5], h8[6], h8[7]>>

\* Rounds t..last of the compression function on working variables h8.
RECURSIVE RoundsTo(_, _, _, _)
RoundsNext(n, w, t, last) == IF Len(n) = 8 THEN RoundsTo(n, w, t + 1, last) ELSE n

RoundsTo(h8, w, t, last) ==
  IF t > last THEN h8
  ELSE RoundsNext(Round(h8, T1(h8, Sha256K[t], w[t]), T2(h8)), w, t, last)

RECURSIVE Rounds(_, _, _)
RoundsMore(n, w, t) == IF Len(n) = 8 THEN Rounds(n, w, t + 8) ELSE n

Rounds(h8, w, t) ==
  IF t > 64 THEN h8 ELSE RoundsMore(RoundsTo(h8, w, t, t + 7), w, t)

\* The sixteen big-endian words of a 64-byte block.
Words(block) ==
  [i \in 1..16 |-> <<block[4 * i - 3] * 256 + block[4 * i - 2],
                     block[4 * i - 1] * 256 + block[4 * i]>>] \o << >>

AddWords(h8, r) == [i \in 1..8 |-> WAdd(h8[i], r[i])] \o << >>

CompressWith(h8, w) == IF Len(w) = 64 THEN AddWords(h8, Rounds(h8, w, 1)) ELSE h8

\* One 64-byte block.
Compress(h8, block) == CompressWith(h8, Schedule(Words(block)))

\* msg, 0x80, zeros, and the bit length as a 64-bit big-endian number
\* (messages are shorter than 2^28 bytes).
Sha256Pad(msg) ==
  LET n == Len(msg)
      bits == 8 * n
  IN msg \o <<128>> \o ZeroBytes((119 - (n % 64)) % 64) \o <<0, 0, 0, 0>> \o
     <<(bits \div 16777216) % 256, (bits \div 65536) % 256, (bits \div 256) % 256,
       bits % 256>>

RECURSIVE Blocks(_, _, _)
BlocksNext(n, m, k) == IF Len(n) = 8 THEN Blocks(n, m, k + 1) ELSE n

Blocks(h8, m, k) ==
  IF 64 * k >= Len(m) THEN h8
  ELSE BlocksNext(Compress(h8, SubSeq(m, 64 * k + 1, 64 * k + 64)), m, k)

\* The eight words of a digest as 32 bytes.
DigestBytes(h8) ==
  [i \in 1..32 |->
     LET wd == h8[(i + 3) \div 4]
         k == (i - 1) % 4
     IN IF k = 0 THEN wd[1] \div 256 ELSE IF k = 1 THEN wd[1] % 256
        ELSE IF k = 2 THEN wd[2] \div 256 ELSE wd[2] % 256] \o << >>

\* The 32-byte digest of msg.
Sha256(msg) == DigestBytes(Blocks(Sha256H0, Sha256Pad(msg), 0))

HmacBlockLen == 64

XorByte(key, c) == [i \in 1..HmacBlockLen |-> XorN(key[i], c, 2)] \o << >>

\* HMAC (RFC 2104): a key longer than a block is hashed first, a shorter
\* one is padded with zero bytes to the block length.
HmacKey(key) == IF Len(key) > HmacBlockLen THEN Sha256(key) ELSE key

HmacPad(k0) == k0 \o ZeroBytes(HmacBlockLen - Len(k0))

HmacBlocks(k, msg) == Sha256(XorByte(k, 92) \o Sha256(XorByte(k, 54) \o msg))

HmacSha256(key, msg) == HmacBlocks(HmacPad(HmacKey(key)), msg)

\* The (key, message) pairs of the HMAC calls made with the inputs
\* above: nonce and secret in DeriveTokenKey (the nonce as sent, with
\* its last byte changed, or all zero), CID and secret in
\* GenerateResetToken, secret and path in GenerateFlowLabel.
TokenSalts ==
  Nonces \cup {[n EXCEPT ![kTokenRandLen] = (@ + 1) % 256] : n \in Nonces}
         \cup {ZeroBytes(kTokenRandLen)}

HmacInputs ==
  {<<n, SubSeq(k, 1, l)>> :
      n \in TokenSalts, k \in Secrets, l \in {NGTCP2_STATELESS_RESET_TOKENLEN, kTokenSecretLen}}
    \cup {<<c, SubSeq(k, 1, NGTCP2_STATELESS_RESET_TOKENLEN)>> : c \in GenCids, k \in GenSecrets}
    \cup {<<k, AddrV4 \o r \o Cid8 \o <<1>>>> : k \in GenSecrets, r \in GenRemotes}

\* Their digests, computed once.
HmacKnown == {<<e[1], e[2], HmacSha256(e[1], e[2])>> : e \in HmacInputs}

HmacFrom(known, key, msg) ==
  IF known = {} THEN HmacSha256(key, msg) ELSE (CHOOSE e \in known : TRUE)[3]

Hmac(key, msg) == HmacFrom({e \in HmacKnown : e[1] = key /\ e[2] = msg}, key, msg)

(* ------------------------------------------------------------------ *)
(* Bytes of a token on the wire: a plain byte is [b |-> value], a     *)
(* byte of AEAD output is a term ([seal |-> ...] or [pad |-> i]).     *)
(* ------------------------------------------------------------------ *)
Wire(bytes) == [i \in 1..Len(bytes) |-> [b |-> bytes[i]]]

\* The values of plain bytes taken off the wire.
Unwire(wire) == [i \in 1..Len(wire) |-> wire[i].b]

(* ------------------------------------------------------------------ *)
(* ngtcp2 crypto helpers                                              *)
(* ------------------------------------------------------------------ *)
\* HKDF-Extract (RFC 5869): HMAC keyed with the first saltlen bytes of
\* salt over the first secretlen bytes of secret.  32 bytes.
ngtcp2_crypto_hkdf_extract(secret, secretlen, salt, saltlen) ==
  Hmac(SubSeq(salt, 1, saltlen), SubSeq(secret, 1, secretlen))

\* HKDF-Expand (RFC 5869): T(i) = HMAC(prk, T(i-1) || info || i), and
\* the output is the first destlen bytes of T(1) || T(2) || ...
RECURSIVE HkdfT(_, _, _)
HkdfT(prk, info, i) ==
  Hmac(prk, (IF i = 1 THEN << >> ELSE HkdfT(prk, info, i - 1)) \o info \o <<i>>)

RECURSIVE HkdfOkm(_, _, _)
HkdfOkm(prk, info, n) ==
  IF n = 0 THEN << >> ELSE HkdfOkm(prk, info, n - 1) \o HkdfT(prk, info, n)

ngtcp2_crypto_hkdf_expand(destlen, secret, secretlen, info, infolen) ==
  SubSeq(HkdfOkm(SubSeq(secret, 1, secretlen), SubSeq(info, 1, infolen),
                 (destlen + 31) \div 32),
         1, destlen)

\* The packet protection key and iv: labelled expansions of secret,
\* kept as terms.
ngtcp2_crypto_derive_packet_protection_key(secret, secretlen) ==
  [key |-> [quic_key |-> secret, n |-> secretlen],
   iv  |-> [quic_iv |-> secret, n |-> secretlen]]

\* AEAD seal: plaintextlen + taglen bytes of output.
ngtcp2_crypto_encrypt(plaintext, key, iv, aad) ==
  [i \in 1..(Len(plaintext) + AeadTagLen) |->
     IF i = 1 THEN [seal |-> [pt |-> plaintext, key |-> key, iv |-> iv, aad |-> aad]]
     ELSE [pad |-> i]]

\* AEAD open: succeeds exactly on the unmodified output of a seal under
\* the same key, iv and associated data.
ngtcp2_crypto_decrypt(ciphertext, key, iv, aad) ==
  IF /\ Len(ciphertext) >= AeadTagLen
     /\ Len(ciphertext) >= 1
     /\ DOMAIN ciphertext[1] = {"seal"}
     /\ Len(ciphertext) = Len(ciphertext[1].seal.pt) + AeadTagLen
     /\ \A i \in 2..Len(ciphertext) : ciphertext[i] = [pad |-> i]
     /\ ciphertext[1].seal.key = key
     /\ ciphertext[1].seal.iv = iv
     /\ ciphertext[1].seal.aad = aad
  THEN [ok |-> TRUE, plaintext |-> ciphertext[1].seal.pt]
  ELSE [ok |-> FALSE]

(* ------------------------------------------------------------------ *)
(* DeriveTokenKey                                                     *)
(* ------------------------------------------------------------------ *)
\* token_key and token_iv as written by
\* ngtcp2_crypto_derive_packet_protection_key.
Derived(k) == [ok |-> TRUE, token_key |-> k.key, token_iv |-> k.iv]

DeriveTokenKey_half(rand_data, rand_datalen, token_secret, lib_ok) ==
  IF ~lib_ok THEN [ok |-> FALSE]
  ELSE Derived(ngtcp2_crypto_derive_packet_protection_key(
                 ngtcp2_crypto_hkdf_extract(
                   token_secret, NGTCP2_STATELESS_RESET_TOKENLEN, rand_data, rand_datalen),
                 kCryptoTokenSecretlen))

\* lib_ok: whether the crypto library carries out the HKDF and AEAD
\* calls of this call of the function (NGTCP2_OK / NGTCP2_ERR): any call
\* may fail, whatever earlier calls did.
DeriveTokenKey(rand_data, rand_datalen, token_secret, lib_ok) ==
  IF ~lib_ok THEN [ok |-> FALSE]
  ELSE Derived(ngtcp2_crypto_derive_packet_protection_key(
                 ngtcp2_crypto_hkdf_extract(
                   token_secret, kTokenSecretLen, rand_data, rand_datalen),
                 kCryptoTokenSecretlen))

(* ------------------------------------------------------------------ *)
(* GenerateRetryToken                                                 *)
(* ------------------------------------------------------------------ *)
\* now: the value uv_hrtime() returns; rand_data: what EntropySource
\* writes.  The result is [ok, token]; token is ciphertext || rand_data.
\* The token once the key and iv are derived (dk): plaintext sealed with
\* addr as associated data, then rand_data.
EncryptToken(dk, plaintext, addr, rand_data) ==
  IF ~dk.ok THEN [ok |-> FALSE, token |-> << >>]
  ELSE [ok |-> TRUE,
        token |-> ngtcp2_crypto_encrypt(plaintext, dk.token_key, dk.token_iv, addr)
                    \o Wire(rand_data)]

GenerateRetryToken(addr, ocid, token_secret, now, rand_data, lib_ok) ==
  EncryptToken(DeriveTokenKey(rand_data, kTokenRandLen, token_secret, lib_ok),
               addr \o now \o ocid, addr, rand_data)

(* ------------------------------------------------------------------ *)
(* InvalidRetryToken                                                  *)
(* ------------------------------------------------------------------ *)
\* The value returned for a rejected token: true, with *ocid untouched.
\* why names the check that failed; the caller never sees it.
Reject(ocid, why) == [invalid |-> TRUE, ocid |-> ocid, why |-> why]

\* t + verification_expiration * NGTCP2_SECONDS < uv_hrtime(), on uint64_t
Expired(t, verification_expiration, now) ==
  ULess(U64Add(t, U64Mul(ToU64(verification_expiration), ToU64(NGTCP2_SECONDS))), now)

BadCidLen_nozero(cil) == cil < NGTCP2_MIN_CIDLEN \/ cil > NGTCP2_MAX_CIDLEN

\* cil != 0 && (cil < NGTCP2_MIN_CIDLEN || cil > NGTCP2_MAX_CIDLEN)
BadCidLen(cil) == cil # 0 /\ (cil < NGTCP2_MIN_CIDLEN \/ cil > NGTCP2_MAX_CIDLEN)

\* memcmp(plaintext, addr.raw(), addr.length()) != 0
AddrDiffers(plaintext, addr) == SubSeq(plaintext, 1, Len(addr)) # addr

\* What a build may do once ngtcp2_crypto_decrypt has written past the
\* end of plaintext[4096]: return true, return false with whatever is in
\* *ocid, or be aborted by the stack protector.
UBOutcomes == {"reject", "accept", "abort"}

Undefined(ocid, ub) ==
  CASE ub = "reject" -> [invalid |-> TRUE, ocid |-> ocid, why |-> "overflow"]
    [] ub = "accept" -> [invalid |-> FALSE, ocid |-> <<0>>, why |-> "overflow"]
    [] ub = "abort" -> [invalid |-> TRUE, ocid |-> ocid, why |-> "abort"]

\* InvalidRetryToken from the result dk of its DeriveTokenKey call on.
\* now: the value uv_hrtime() returns; ub: the outcome taken where the
\* behaviour is undefined.
DecryptToken(dk, token, addr, ocid, verification_expiration, now, ub) ==
  LET ciphertextlen == Len(token) - kTokenRandLen
      ciphertext == SubSeq(token, 1, ciphertextlen)
  IN IF ~dk.ok THEN Reject(ocid, "derive")
     ELSE IF ciphertextlen >= AeadTagLen /\ ciphertextlen - AeadTagLen > PlaintextCap
     THEN Undefined(ocid, ub)
     ELSE
     LET dec == ngtcp2_crypto_decrypt(ciphertext, dk.token_key, dk.token_iv, addr)
     IN IF ~dec.ok THEN Reject(ocid, "decrypt")
        ELSE
        LET plaintext == dec.plaintext
            plaintextlen == ciphertextlen - AeadTagLen
        IN IF plaintextlen < Len(addr) + SizeofU64 THEN Reject(ocid, "plaintextlen")
           ELSE
           LET cil == plaintextlen - Len(addr) - SizeofU64
           IN IF BadCidLen(cil) \/ AddrDiffers(plaintext, addr)
              THEN Reject(ocid, "structure")
              ELSE
              LET t == SubSeq(plaintext, Len(addr) + 1, Len(addr) + SizeofU64)
              IN IF Expired(t, verification_expiration, now)
                 THEN Reject(ocid, "expired")
                 ELSE [invalid |-> FALSE,
                       ocid |-> SubSeq(plaintext, Len(addr) + SizeofU64 + 1,
                                       Len(addr) + SizeofU64 + cil),
                       why |-> "ok"]

\* The result is [invalid, ocid]: the bool returned (true when the token
\* is NOT valid) and *ocid after the call.
InvalidRetryToken(token, addr, ocid, token_secret, verification_expiration, now, lib_ok, ub) ==
  IF Len(token) < kTokenRandLen THEN Reject(ocid, "short")
  ELSE DecryptToken(
         DeriveTokenKey(Unwire(SubSeq(token, Len(token) - kTokenRandLen + 1, Len(token))),
                        kTokenRandLen, token_secret, lib_ok),
         token, addr, ocid, verification_expiration, now, ub)

\* The number of bytes std::copy_n puts into GenerateRetryToken's
\* plaintext array.
PlaintextCopied(addr, ocid) == Len(addr) + SizeofU64 + Len(ocid)

\* The number of bytes InvalidRetryToken has written into plaintext[4096]
\* when it is done with token: none when it returns before the decrypt
\* call or the ciphertext is shorter than a tag, else every ciphertext
\* byte before the tag (written before the tag is verified).
PlaintextWritten(token, lib_ok) ==
  IF Len(token) < kTokenRandLen \/ ~lib_ok THEN 0
  ELSE LET ciphertextlen == Len(token) - kTokenRandLen
       IN IF ciphertextlen < AeadTagLen THEN 0 ELSE ciphertextlen - AeadTagLen

(* ------------------------------------------------------------------ *)
(* GenerateResetToken                                                 *)
(* ------------------------------------------------------------------ *)
\* The first NGTCP2_STATELESS_RESET_TOKENLEN bytes of HKDF-Extract with
\* the CID as salt and the first secretlen bytes of secret as key material.
ngtcp2_crypto_generate_stateless_reset_token(secret, secretlen, cid) ==
  SubSeq(ngtcp2_crypto_hkdf_extract(secret, secretlen, cid, Len(cid)),
         1, NGTCP2_STATELESS_RESET_TOKENLEN)

GenerateResetToken_unchecked(secret, cid, lib_ok) ==
  [ok |-> TRUE,
   token |-> IF lib_ok
             THEN ngtcp2_crypto_generate_stateless_reset_token(
                    secret, NGTCP2_STATELESS_RESET_TOKENLEN, cid)
             ELSE ZeroBytes(NGTCP2_STATELESS_RESET_TOKENLEN)]

\* The result is [ok, token].
GenerateResetToken(secret, cid, lib_ok) ==
  IF ~lib_ok THEN [ok |-> FALSE, token |-> << >>]
  ELSE [ok |-> TRUE,
        token |-> ngtcp2_crypto_generate_stateless_reset_token(
                    secret, NGTCP2_STATELESS_RESET_TOKENLEN, cid)]

(* ------------------------------------------------------------------ *)
(* GenerateFlowLabel                                                  *)
(* ------------------------------------------------------------------ *)
\* kLabelMask as a uint32_t: the low kLabelBits bits set.
kLabelMask == [i \in 1..SizeofU32 |->
                 IF 8 * i <= kLabelBits THEN 255
                 ELSE IF 8 * (i - 1) >= kLabelBits THEN 0
                 ELSE 2 ^ (kLabelBits - 8 * (i - 1)) - 1]

\* label &= kLabelMask
MaskLabel(label) == [i \in 1..SizeofU32 |-> BitAnd(label[i], kLabelMask[i], 8)]

\* The uint32_t returned.  label starts as 0 and is what hkdf_expand
\* wrote into it (nothing when the call failed: its result is not looked
\* at), masked.
GenerateFlowLabel(local, remote, cid, secret, secretlen, lib_ok) ==
  LET plaintext == local \o remote \o cid
      infolen == Len(local) + Len(remote) + Len(cid)
      label == IF lib_ok
               THEN ngtcp2_crypto_hkdf_expand(SizeofU32, secret, secretlen, plaintext, infolen)
               ELSE ToBytes(0, SizeofU32)
  IN MaskLabel(label)

(* ------------------------------------------------------------------ *)
(* Initial state                                                      *)
(* ------------------------------------------------------------------ *)
NoCall == [op |-> "none"]

\* 10 seconds, the default verification_expiration, in clock units
DefaultWindowNs == U64Mul(ToU64(DefaultWindow), ToU64(NGTCP2_SECONDS))

\* uv_hrtime() counts nanoseconds from an arbitrary origin: endpoint 1
\* is at 1000000, endpoint 2 is within the default window of the top
\* of the uint64_t range.
ClockOrigin1 == ToU64(1000000)

ClockOrigin2 == U64Sub(U64Max, U64Add(DefaultWindowNs, ToU64(1)))

\* Time passes by one nanosecond or by the default window.
TickSteps == {ToU64(1), DefaultWindowNs}

Init ==
  /\ hrtime = [s \in Servers |-> IF s = 1 THEN ClockOrigin1 ELSE ClockOrigin2]
  /\ ticks = 0
  /\ secret_of \in {f \in [Servers -> Secrets] : f[1] = SecretZero}
  /\ client_token = << >>
  /\ issue = NoCall
  /\ accepted = FALSE
  /\ ret = NoCall
  /\ memo = NoCall

(* ------------------------------------------------------------------ *)
(* Steps                                                              *)
(* ------------------------------------------------------------------ *)
\* Time passes on every endpoint; uv_hrtime() is monotonic.
Tick(d) ==
  /\ ticks < MaxTicks
  /\ \A s \in Servers : ~U64AddOverflows(hrtime[s], d)
  /\ hrtime' = [s \in Servers |-> U64Add(hrtime[s], d)]
  /\ ticks' = ticks + 1
  /\ ret' = NoCall
  /\ UNCHANGED <<secret_of, client_token, issue, accepted, memo>>

\* What ngtcp2_crypto_write_retry may return: an error, nothing written,
\* or the length of the packet.
WriteResults == {-1, 0, 1}

\* GenerateRetryPacket on endpoint s for a client at remote_addr whose
\* Initial carried dcid, with nwrite what ngtcp2_crypto_write_retry
\* returns: a packet, and with it the token, goes to the client only when
\* the token was generated and the packet was written.
\* Whether GenerateRetryPacket returns a packet: r is what
\* GenerateRetryToken returned.
PacketWritten(r, nwrite) == IF ~r.ok THEN FALSE ELSE nwrite > 0

\* The end of GenerateRetryPacket: the packet with r.token is sent or
\* nothing is.
SendRetry(s, remote_addr, dcid, r, nwrite) ==
  /\ ret' = [op |-> "retry", ok |-> PacketWritten(r, nwrite)]
  /\ IF PacketWritten(r, nwrite)
     THEN /\ client_token' = r.token
          /\ issue' = [op |-> "retry", s |-> s, addr |-> remote_addr, cid |-> dcid,
                       secret |-> secret_of[s], t |-> hrtime[s]]
          /\ accepted' = FALSE
     ELSE UNCHANGED <<client_token, issue, accepted>>
  /\ UNCHANGED <<hrtime, ticks, secret_of, memo>>

\* lib_ok: whether the library calls of GenerateRetryToken succeed; when
\* they do not, ngtcp2_crypto_write_retry is not called, and one value of
\* nwrite stands for all.
Retry(s, remote_addr, dcid, rand_data, lib_ok, nwrite) ==
  /\ ~lib_ok => nwrite = 1
  /\ SendRetry(s, remote_addr, dcid,
               GenerateRetryToken(remote_addr, dcid, secret_of[s], hrtime[s],
                                  rand_data, lib_ok),
               nwrite)

\* What a client (or an attacker who saw the token) can send back.
Variants == {"asis", "short", "flipct", "flipnonce", "junk", "oversize"}

\* Bytes that were never a token: long enough to hold a nonce, a tag, an
\* IPv4 address and a timestamp.
JunkToken ==
  Wire([i \in 1..(SizeofSockaddrIn + SizeofU64 + AeadTagLen + kTokenRandLen) |-> 0])

\* Bytes that were never a token, one more than a nonce, a tag and
\* sizeof(plaintext) bytes of ciphertext.
OversizeToken ==
  Wire([i \in 1..(PlaintextCap + 1 + AeadTagLen + kTokenRandLen) |-> 0])

Present(tok, variant) ==
  CASE variant = "asis" -> tok
    [] variant = "short" -> SubSeq(tok, Len(tok) - kTokenRandLen + 2, Len(tok))
    [] variant = "flipct" -> [tok EXCEPT ![2] = [flip |-> 2]]
    [] variant = "flipnonce" -> [tok EXCEPT ![Len(tok)] = [b |-> (@.b + 1) % 256]]
    [] variant = "junk" -> JunkToken
    [] variant = "oversize" -> OversizeToken

\* The address and original CID a well-formed token was sealed for.
EmbeddedAddr(tok, addr) ==
  IF Len(tok) > kTokenRandLen /\ DOMAIN tok[1] = {"seal"} THEN tok[1].seal.aad ELSE addr

EmbeddedCid(tok) ==
  IF Len(tok) > kTokenRandLen /\ DOMAIN tok[1] = {"seal"}
  THEN SubSeq(tok[1].seal.pt, Len(tok[1].seal.aad) + SizeofU64 + 1, Len(tok[1].seal.pt))
  ELSE << >>

ValidateRetryToken_anyaddr(s, tok, addr, verification_expiration, lib_ok, ub) ==
  InvalidRetryToken(tok, EmbeddedAddr(tok, addr), CidEmpty, secret_of[s],
                    verification_expiration, hrtime[s], lib_ok, ub)

ValidateRetryToken_once(s, tok, addr, verification_expiration, lib_ok, ub) ==
  IF accepted THEN Reject(CidEmpty, "consumed")
  ELSE InvalidRetryToken(tok, addr, CidEmpty, secret_of[s],
                         verification_expiration, hrtime[s], lib_ok, ub)

\* The call InvalidRetryToken(token, addr, &ocid, token_secret,
\* verification_expiration) on endpoint s, with a default-constructed
\* (zero-length) ocid: the function reads the endpoint's clock.
ValidateRetryToken(s, tok, addr, verification_expiration, lib_ok, ub) ==
  InvalidRetryToken(tok, addr, CidEmpty, secret_of[s],
                    verification_expiration, hrtime[s], lib_ok, ub)

\* What is kept of a validation that returned r.
Validated(s, addr, verification_expiration, variant, lib_ok, r) ==
  /\ ret' = [op |-> "validate", s |-> s, addr |-> addr,
             window |-> verification_expiration, variant |-> variant,
             lib_ok |-> lib_ok,
             invalid |-> r.invalid, ocid |-> r.ocid, why |-> r.why,
             again |-> accepted]
  /\ accepted' = (accepted \/ (variant = "asis" /\ ~r.invalid))

\* Endpoint s validates the token of an Initial received from addr;
\* lib_ok: whether the library calls of this validation succeed.
Validate(s, addr, verification_expiration, variant, lib_ok, ub) ==
  /\ variant \in {"short", "flipct", "flipnonce"} =>
       client_token # << >> /\ s = issue.s /\ addr = issue.addr
  /\ variant \in {"junk", "oversize"} => s = 1 /\ addr = AddrV4
  /\ variant # "oversize" => ub = "reject"
  /\ ~lib_ok => variant = "asis"
  /\ Validated(s, addr, verification_expiration, variant, lib_ok,
               ValidateRetryToken(s, Present(client_token, variant), addr,
                                  verification_expiration, lib_ok, ub))
  /\ UNCHANGED <<hrtime, ticks, secret_of, client_token, issue, memo>>

\* A stateless reset token is computed for cid; lib_ok: whether the
\* library call of this computation succeeds.
ResetToken(secret, cid, lib_ok, remember) ==
  LET r == GenerateResetToken(secret, cid, lib_ok)
      call == [op |-> "reset", secret |-> secret, cid |-> cid, lib_ok |-> lib_ok,
               ok |-> r.ok, token |-> r.token]
  IN /\ ret' = call
     /\ memo' = IF remember /\ memo = NoCall THEN call ELSE memo
     /\ UNCHANGED <<hrtime, ticks, secret_of, client_token, issue, accepted>>

\* A flow label is computed for a path and cid; lib_ok: whether
\* ngtcp2_crypto_hkdf_expand succeeds in this computation.
FlowLabel(local, remote, cid, secret, lib_ok, remember) ==
  /\ Len(local) + Len(remote) + Len(cid) <= kInfoLen
  /\ LET call == [op |-> "flow", local |-> local, remote |-> remote, cid |-> cid,
                  secret |-> secret, lib_ok |-> lib_ok,
                  label |-> GenerateFlowLabel(local, remote, cid, secret,
                                              kTokenSecretLen, lib_ok)]
     IN /\ ret' = call
        /\ memo' = IF remember /\ memo = NoCall THEN call ELSE memo
  /\ UNCHANGED <<hrtime, ticks, secret_of, client_token, issue, accepted>>

\* The retry-token subsystem: issuing, time passing, validating.
\* One byte more than the longest connection ID.
CidTooLong == [i \in 1..(NGTCP2_MAX_CIDLEN + 1) |-> 50 + i]

\* The shapes of plaintext around the length tests of InvalidRetryToken:
\* nothing, one byte short of a timestamp, a CID of 0, 1,
\* NGTCP2_MAX_CIDLEN and NGTCP2_MAX_CIDLEN + 1 bytes, and a well-formed
\* plaintext that starts with another address.
SealShapes == {"empty", "notime", "cid0", "cid1", "cidmax", "cidover", "otheraddr"}

SealLength(addr, shape) ==
  CASE shape = "empty" -> 0
    [] shape = "notime" -> Len(addr) + SizeofU64 - 1
    [] shape = "cid0" -> Len(addr) + SizeofU64
    [] shape = "cid1" -> Len(addr) + SizeofU64 + 1
    [] shape = "cidmax" -> Len(addr) + SizeofU64 + NGTCP2_MAX_CIDLEN
    [] shape = "cidover" -> Len(addr) + SizeofU64 + NGTCP2_MAX_CIDLEN + 1

\* The plaintext a holder of the token secret seals for addr at clock
\* value now: a prefix of addr || now || cid, or AddrV4b || now || cid.
SealPlaintext(addr, now, shape) ==
  IF shape = "otheraddr" THEN AddrV4b \o now \o Cid8
  ELSE SubSeq(addr \o now \o CidTooLong, 1, SealLength(addr, shape))

\* A holder of endpoint s's token secret (another member of the cluster)
\* seals plaintext for a client at addr the way GenerateRetryToken seals
\* its own: key and iv from DeriveTokenKey over rand_data, addr as
\* associated data, rand_data appended.
Sealed(s, addr, plaintext, r) ==
  /\ r.ok
  /\ client_token' = r.token
  /\ issue' = [op |-> "seal", s |-> s, addr |-> addr, plaintext |-> plaintext,
               secret |-> secret_of[s], t |-> hrtime[s]]
  /\ accepted' = FALSE
  /\ ret' = [op |-> "seal"]
  /\ UNCHANGED <<hrtime, ticks, secret_of, memo>>

Seal(s, addr, plaintext, rand_data) ==
  Sealed(s, addr, plaintext,
         EncryptToken(DeriveTokenKey(rand_data, kTokenRandLen, secret_of[s], TRUE),
                      plaintext, addr, rand_data))

Next ==
  \/ \E d \in TickSteps : Tick(d)
  \/ \E s \in Servers, a \in ClientAddresses, c \in Cids, n \in Nonces,
        ok \in BOOLEAN, nw \in WriteResults :
       Retry(s, a, c, n, ok, nw)
  \/ \E s \in Servers, a \in Addresses, w \in Windows, v \in Variants,
        ok \in BOOLEAN, u \in UBOutcomes :
       Validate(s, a, w, v, ok, u)

Spec == Init /\ [][Next]_vars

\* The deterministic generators, interleaved with time passing and with
\* retry tokens being issued.
NextGen ==
  \/ \E d \in TickSteps : Tick(d)
  \/ \E n \in Nonces, ok \in BOOLEAN, nw \in WriteResults :
       Retry(1, AddrV4, Cid8, n, ok, nw)
  \/ \E k \in GenSecrets, c \in GenCids, ok \in BOOLEAN : ResetToken(k, c, ok, TRUE)
  \/ \E k \in GenSecrets, r \in GenRemotes, ok \in BOOLEAN :
       FlowLabel(AddrV4, r, Cid8, k, ok, TRUE)

SpecGen == Init /\ [][NextGen]_vars

\* Validation of sealed plaintexts of every shape, interleaved with time
\* passing.
NextCid ==
  \/ \E d \in TickSteps : Tick(d)
  \/ \E s \in Servers, a \in ClientAddresses, n \in Nonces, k \in SealShapes :
       Seal(s, a, SealPlaintext(a, hrtime[s], k), n)
  \/ \E s \in Servers, a \in ClientAddresses, w \in Windows, ok \in BOOLEAN :
       Validate(s, a, w, "asis", ok, "reject")

SpecCid == Init /\ [][NextCid]_vars

(* ------------------------------------------------------------------ *)
(* Properties of retry tokens (checked under Spec)                    *)
(* ------------------------------------------------------------------ *)
\* The last step validated, unmodified, the token the client was issued.
ValidatedAsIs == ret.op = "validate" /\ ret.variant = "asis" /\ issue.op = "retry"

\* ... from the address it was issued to / under the secret it was issued under
RightAddr == ret.addr = issue.addr

RightSecret == secret_of[ret.s] = issue.secret

\* The validating endpoint's clock, and the window in clock units
Now == hrtime[ret.s]

WindowNs(w) == U64Mul(ToU64(w), ToU64(NGTCP2_SECONDS))

\* now = t0 + d with 0 <= d <= window, resp. d > window, over the integers
WithinWindow ==
  /\ ~ULess(Now, issue.t)
  /\ ~ULess(WindowNs(ret.window), U64Sub(Now, issue.t))

PastWindow ==
  /\ ~ULess(Now, issue.t)
  /\ ULess(WindowNs(ret.window), U64Sub(Now, issue.t))

\* t0 + window fits in a uint64_t
WindowFits == ~U64AddOverflows(issue.t, WindowNs(ret.window))

\* The library calls of the last validation succeeded.
LibraryWorked == ret.lib_ok

\* C1 (as claimed): a token validated with the address and secret it was
\* issued with, at a clock value t0 + d with d <= window, is accepted and
\* yields exactly the original CID (the library calls succeeding).
RoundTrip ==
  (ValidatedAsIs /\ LibraryWorked /\ RightAddr /\ RightSecret /\ WithinWindow)
    => (~ret.invalid /\ ret.ocid = issue.cid)

\* C2: a token issued to address A is rejected, and no original CID is
\* returned, whenever the address it is validated with is not
\* byte-identical to A, whatever the secret, CID and time.
AddressBinding ==
  (ValidatedAsIs /\ ~RightAddr) => (ret.invalid /\ ret.ocid = CidEmpty)

\* The would-be accepting case of C2: right secret, inside the window,
\* wrong address, rejected.
AddressBindingWitness ==
  /\ ValidatedAsIs /\ LibraryWorked
  /\ ~RightAddr /\ RightSecret /\ WithinWindow /\ WindowFits
  /\ issue.cid # CidEmpty
  /\ ret.invalid

\* C3 (as claimed): with the right address and secret the token is
\* rejected exactly when now - t0 > window (the library calls
\* succeeding).
Freshness ==
  (ValidatedAsIs /\ LibraryWorked /\ RightAddr /\ RightSecret)
    => (ret.invalid <=> PastWindow)

\* C4 (as claimed): every rejection is the same observable result (the
\* call returns true with the caller's ocid untouched) whichever way the
\* token is bad, and an original CID is produced only when the token is
\* accepted.
FailClosed ==
  ret.op = "validate" =>
    /\ ret.why # "ok" =>
         (ret.why # "abort" /\ ret.invalid = TRUE /\ ret.ocid = CidEmpty)
    /\ ret.why = "ok" => ret.invalid = FALSE
    /\ ret.ocid # CidEmpty => ~ret.invalid

\* C5 (as claimed): a token whose timestamp is ahead of the validating
\* endpoint's clock is never accepted.
NoFutureToken ==
  (ValidatedAsIs /\ ULess(Now, issue.t)) => ret.invalid

\* C6: a token is rejected under any secret that differs from the one it
\* was issued under, whatever the address, CID and time.
SecretIsolation ==
  (ValidatedAsIs /\ ~RightSecret) => (ret.invalid /\ ret.ocid = CidEmpty)

\* The would-be accepting case of C6: the secrets differ (in their last
\* byte only), the address is the right one and the timestamp test of
\* the code would pass, and the token is rejected by the AEAD.
SecretIsolationWitness ==
  /\ ValidatedAsIs /\ ~RightSecret /\ RightAddr
  /\ ~Expired(issue.t, ret.window, Now)
  /\ ret.invalid /\ ret.why = "decrypt"

\* C10 (as claimed): a token that has been accepted is not accepted a
\* second time.
ConsumedOnce ==
  (ValidatedAsIs /\ ret.again) => ret.invalid

\* The tests InvalidRetryToken makes on the unmodified token pass in
\* the last validation: the library calls succeed, the address and the
\* secret are those of the issue, and the timestamp test passes.
TestsPass ==
  /\ LibraryWorked /\ RightAddr /\ RightSecret
  /\ ~Expired(issue.t, ret.window, Now)

\* C10 (amended): validation keeps no record of the tokens it accepted.
\* Whether the token was accepted before or not, a validation accepts it
\* and yields the original CID exactly when its own tests pass: an
\* accepted token is accepted again when they do, and rejected when they
\* do not (a library call that fails on the later validation included).
NotConsumed ==
  ValidatedAsIs =>
    /\ TestsPass => (~ret.invalid /\ ret.ocid = issue.cid)
    /\ ~TestsPass => (ret.invalid /\ ret.ocid = CidEmpty)

\* A token is accepted for the second time.
NotConsumedWitness ==
  ValidatedAsIs /\ ret.again /\ TestsPass /\ ~ret.invalid /\ issue.cid # CidEmpty

(* ------------------------------------------------------------------ *)
(* Properties of reset tokens and flow labels (checked under SpecGen) *)
(* ------------------------------------------------------------------ *)
\* The last step computed a reset token, and so did the first
\* generator call of the run.
TwoResets == ret.op = "reset" /\ memo.op = "reset"

\* The last call had the secret and CID of the first.
SameResetInputs == TwoResets /\ ret.secret = memo.secret /\ ret.cid = memo.cid

\* C7 (as claimed): every call with the same secret and CID yields the
\* same 16-byte token as the first.
ResetDeterminism ==
  /\ SameResetInputs => (ret.ok = memo.ok /\ ret.token = memo.token)
  /\ ret.op = "reset" => Len(ret.token) = NGTCP2_STATELESS_RESET_TOKENLEN

\* C7 (amended): GenerateResetToken returns true exactly when the
\* library call succeeds; a call that returns true yields the 16-byte
\* token that every other such call with the same secret and CID yields,
\* whatever happened in between; a call on which the library fails
\* returns false and yields no token.
ResetDeterminismOnSuccess ==
  /\ (SameResetInputs /\ ret.ok /\ memo.ok) => ret.token = memo.token
  /\ ret.op = "reset" =>
       /\ ret.ok <=> ret.lib_ok
       /\ ret.ok => Len(ret.token) = NGTCP2_STATELESS_RESET_TOKENLEN
       /\ ~ret.ok => ret.token = << >>

\* The same reset token is computed again after time has passed and a
\* retry token has been issued.
ResetDeterminismWitness ==
  /\ SameResetInputs
  /\ ret.ok /\ memo.ok /\ ret.token = memo.token
  /\ ticks > 0 /\ client_token # << >>

\* C8 (as claimed): for a fixed CID two different secrets give different
\* reset tokens, and for a fixed secret two different CIDs do.
ResetSensitivity ==
  (/\ TwoResets /\ ret.ok /\ memo.ok
   /\ \/ (ret.cid = memo.cid /\ ret.secret # memo.secret)
      \/ (ret.secret = memo.secret /\ ret.cid # memo.cid))
    => ret.token # memo.token

\* 2^kLabelBits as a uint32_t
LabelLimit == [i \in 1..SizeofU32 |->
                 IF 8 * (i - 1) <= kLabelBits /\ kLabelBits < 8 * i
                 THEN 2 ^ (kLabelBits - 8 * (i - 1)) ELSE 0]

\* C9 (as claimed): a flow label is below 2^20, also when HKDF-Expand
\* fails, and a call returns what the first call with the same inputs
\* returned.
FlowLabelBound ==
  /\ ret.op = "flow" => ULess(ret.label, LabelLimit)
  /\ (/\ ret.op = "flow" /\ memo.op = "flow"
      /\ ret.local = memo.local /\ ret.remote = memo.remote
      /\ ret.cid = memo.cid /\ ret.secret = memo.secret)
       => ret.label = memo.label

(* ------------------------------------------------------------------ *)
(* The length tests on an authenticated plaintext (checked under       *)
(* SpecCid)                                                            *)
(* ------------------------------------------------------------------ *)
\* The last step validated, unchanged, a sealed plaintext from the
\* address and under the secret it was sealed with, and the library
\* calls succeeded: the AEAD opens it.
SealedValidated ==
  /\ ret.op = "validate" /\ ret.variant = "asis" /\ issue.op = "seal"
  /\ LibraryWorked /\ RightAddr /\ RightSecret

\* cidLength = plaintext length - address length - 8, over the integers
CidLength == Len(issue.plaintext) - Len(ret.addr) - SizeofU64

\* The 8 bytes after the address in the sealed plaintext
SealedTimestamp ==
  SubSeq(issue.plaintext, Len(ret.addr) + 1, Len(ret.addr) + SizeofU64)

\* C11: an authenticated token is rejected when its plaintext is shorter
\* than address length + 8 and when cidLength is neither 0 nor within
\* [NGTCP2_MIN_CIDLEN, NGTCP2_MAX_CIDLEN]; with cidLength = 0 (and the
\* address and timestamp tests passing) it is accepted and yields a
\* zero-length CID; whenever a CID is extracted cidLength is not
\* negative and is the length of the CID produced.
CidLengthCheck ==
  SealedValidated =>
    /\ CidLength < 0 => (ret.invalid /\ ret.ocid = CidEmpty)
    /\ (CidLength > 0 /\ (CidLength < NGTCP2_MIN_CIDLEN \/ CidLength > NGTCP2_MAX_CIDLEN))
         => (ret.invalid /\ ret.ocid = CidEmpty)
    /\ (/\ CidLength = 0
        /\ ~AddrDiffers(issue.plaintext, ret.addr)
        /\ ~Expired(SealedTimestamp, ret.window, Now))
         => (~ret.invalid /\ Len(ret.ocid) = 0)
    /\ ~ret.invalid =>
         (/\ CidLength >= 0 /\ CidLength <= NGTCP2_MAX_CIDLEN
          /\ Len(ret.ocid) = CidLength)

\* A sealed plaintext of exactly address || timestamp is accepted and
\* yields the zero-length CID.
CidLengthCheckWitness ==
  /\ SealedValidated /\ CidLength = 0
  /\ ~ret.invalid /\ ret.why = "ok" /\ Len(ret.ocid) = 0

(* ------------------------------------------------------------------ *)
(* The plaintext buffers (checked under Spec)                          *)
(* ------------------------------------------------------------------ *)
\* C12 (as claimed): no token is issued from more than PlaintextCap bytes
\* of plaintext, a token whose ciphertext would decrypt to more than
\* PlaintextCap bytes is rejected like any other bad token, and no call
\* writes more than PlaintextCap bytes into its plaintext buffer.
PlaintextCapEnforced ==
  /\ (ret.op = "retry" /\ ret.ok) =>
       PlaintextCopied(issue.addr, issue.cid) <= PlaintextCap
  /\ ret.op = "validate" =>
       LET token == Present(client_token, ret.variant)
       IN /\ Len(token) - kTokenRandLen - AeadTagLen > PlaintextCap =>
               (ret.invalid /\ ret.ocid = CidEmpty /\ ret.why # "abort")
          /\ PlaintextWritten(token, ret.lib_ok) <= PlaintextCap

====
